---------------------------- MODULE Spec2Model ----------------------------
(***************************************************************************)
(* State-machine model of flask_backend.py: the LearningCurveRAG object    *)
(* (vector index + image queue directory + background vision worker), the  *)
(* startup ingestion and the /upload, /ask and /queue-status handlers.     *)
(*                                                                         *)
(* A file name is the sequence of its dot-separated segments               *)
(* (<<"a","docx">> is "a.docx"); an index id is <<source, "t", i>> for     *)
(* f"{file_name}_t_{i}" and <<source, "img", i>> for                       *)
(* f"{file_name}_img_{i}"; a queue artifact "<id>.png" is named by its id. *)
(***************************************************************************)
EXTENDS Naturals, Integers, Sequences, FiniteSets, TLC

\* ------------------------------------------------------------------ bounds
\* request-handling threads of the server (requests served concurrently)
NumHandlers == 2
\* number of embedded images of the document a.docx of the fixture
MaxImages == 2

\* ------------------------------------------------------- program constants
\* chunks = [text[i:i+2000] for i in range(0, len(text), 1800)]
Window == 2000
Stride == 1800

ALLOWED_EXTENSIONS == {"docx"}
Placeholder == "[Image queued for analysis]"

\* ------------------------------------------------------------------ fixture
DocA == <<"a", "docx">>
DocB == <<"b", "DOCX">>
\* the documents a client may upload (content is fixed per name)
Sources == {DocA, DocB}
\* documents without images, named after the length of their text
ChunkLens ==
    ("c1" :> 1) @@ ("c1799" :> 1799) @@ ("c1800" :> 1800) @@ ("c1801" :> 1801)
        @@ ("c2000" :> 2000) @@ ("c2001" :> 2001) @@ ("c3600" :> 3600)
        @@ ("c3601" :> 3601) @@ ("c5500" :> 5500)
ChunkDocs == {<<n, "docx">> : n \in DOMAIN ChunkLens}
\* len(text) of the joined non-blank paragraphs of each document
TextLen(s) ==
    CASE s = DocA -> 1500
      [] s = DocB -> 3700
      [] OTHER -> ChunkLens[s[1]]
\* number of relationships of the document whose target_ref contains "image"
NumImages(s) == IF s = DocA THEN MaxImages ELSE 0
\* the outputs describe_image may return
Descriptions == {"red gear icon, top-right", "blue megaphone, sidebar"}
\* file names a client may send with /upload
Filenames == Sources \cup {<<"">>, <<"a", "txt">>, <<"docx">>}
\* /upload requests: without a file part, or with a file of some name
UploadRequests ==
    {[hasFile |-> FALSE, filename |-> <<"">>]}
        \cup {[hasFile |-> TRUE, filename |-> f] : f \in Filenames}
\* /ask requests: the "question" field of the JSON body
Questions == {"", "how do I post an announcement?"}

Main == 0
Handlers == 1..NumHandlers
Procs == {Main} \cup Handlers

\* --------------------------------------------------------------- helpers
Min(a, b) == IF a < b THEN a ELSE b

TextId(s, i) == <<s, "t", i>>
ImgId(s, i) == <<s, "img", i>>
ImageIds == {ImgId(s, i) : s \in Sources, i \in 0..(MaxImages - 1)}

\* str.lower() on the extensions of the fixture
Lower(seg) == IF seg \in {"DOCX", "Docx", "docx"} THEN "docx" ELSE seg

\* allowed_file: '.' in filename and filename.rsplit('.', 1)[1].lower() in ALLOWED_EXTENSIONS
allowed_file(filename) ==
    /\ Len(filename) > 1
    /\ Lower(filename[Len(filename)]) \in ALLOWED_EXTENSIONS

\* the chunks of a text of length len, as half-open slices [lo, hi) of it
NumChunks(len) == (len + Stride - 1) \div Stride
ChunkOf(len, k) == [text |-> "slice", lo |-> k * Stride, hi |-> Min(k * Stride + Window, len)]

TextEntry(s, k) ==
    [source |-> s, type |-> "text", processed |-> FALSE, doc |-> ChunkOf(TextLen(s), k)]
QueuedImageEntry(s) ==
    [source |-> s, type |-> "image", processed |-> FALSE,
     doc |-> [text |-> Placeholder, lo |-> 0, hi |-> 0]]
ProcessedImageEntry(s, d) ==
    [source |-> s, type |-> "image", processed |-> TRUE,
     doc |-> [text |-> d, lo |-> 0, hi |-> 0]]

\* position of a first path character in the byte order used by str comparison
CharOrd(c) == IF c = "a" THEN 97 ELSE 98
\* Path.__lt__ on "<source>_img_<i>.png" (single-digit i)
NameLess(x, y) ==
    \/ CharOrd(x[1][1]) < CharOrd(y[1][1])
    \/ x[1] = y[1] /\ x[3] < y[3]

RECURSIVE SortedSeq(_)
\* sorted(list_of_paths)
SortedSeq(S) ==
    IF S = {} THEN <<>>
    ELSE LET m == CHOOSE x \in S : \A y \in S \ {x} : NameLess(x, y)
         IN <<m>> \o SortedSeq(S \ {m})

SeqSet(q) == {q[i] : i \in 1..Len(q)}
Without(q, x) == SelectSeq(q, LAMBDA e : e # x)
InsertAt(q, k, x) == SubSeq(q, 1, k) \o <<x>> \o SubSeq(q, k + 1, Len(q))

VARIABLES
    phase,      \* "booting" (bot = LearningCurveRAG(...) running), "serving", "crashed"
    bootq,      \* files create_vectorstore has still to ingest, in rglob order
    uploads,    \* names of the files in UPLOAD_FOLDER
    index,      \* the chroma collection: id -> [source, type, processed, doc]
    queue,      \* the *.png files of queue_dir, in the order the directory lists them
    hpc,        \* per thread: position in its handler / in process_docx
    hsrc,       \* per thread: file_name being ingested
    himg,       \* per thread: img_index
    hres,       \* per thread: the response its handler returns (NoResponse: none yet)
    wpc,        \* worker position
    wimages,    \* worker: images, the listing taken at the start of the sweep
    wi,         \* worker: position of img_path in images (1-based)
    wmeta,      \* worker: meta["source"] of the entry read for img_path
    wdesc,      \* worker: description returned by describe_image
    wdone       \* worker: outcome of every item visited in this sweep

vars == <<phase, bootq, uploads, index, queue, hpc, hsrc, himg, hres,
          wpc, wimages, wi, wmeta, wdesc, wdone>>

shared == <<uploads, index, queue>>
workerVars == <<wpc, wimages, wi, wmeta, wdesc, wdone>>
ingestVars == <<hpc, hsrc, himg, hres>>
bootVars == <<phase, bootq>>

NoSource == <<"">>
\* A response: the route that made it, its HTTP status, what its body is, whether
\* a call it made raised, the fields of /queue-status, and for /upload how
\* process_docx ended ("dup": the return of the duplicate check, "end": after the
\* image loop, "raise": by an exception).
NoStats ==
    [pending_images |-> 0, total_images |-> 0, processed_images |-> 0,
     is_processing |-> FALSE, current_image |-> <<>>]
Response(route, status, body, failed) ==
    [route |-> route, status |-> status, body |-> body, failed |-> failed,
     stats |-> NoStats, path |-> ""]
NoResponse == Response("none", 0, "none", FALSE)

RECURSIVE Perms(_)
\* the orders in which a directory walk may yield a set of files
Perms(S) ==
    IF S = {} THEN {<<>>}
    ELSE UNION {{<<x>> \o q : q \in Perms(S \ {x})} : x \in S}

Init ==
    /\ phase = "booting"
    /\ uploads \in SUBSET Sources
    /\ bootq \in Perms(uploads)
    /\ index = [x \in {} |-> QueuedImageEntry(NoSource)]
    /\ queue = <<>>
    /\ hpc = [p \in Procs |-> IF p = Main THEN "boot" ELSE "idle"]
    /\ hsrc = [p \in Procs |-> NoSource]
    /\ himg = [p \in Procs |-> 0]
    /\ hres = [p \in Procs |-> NoResponse]
    /\ wpc = "idle"
    /\ wimages = <<>>
    /\ wi = 1
    /\ wmeta = NoSource
    /\ wdesc = ""
    /\ wdone = <<>>

\* ------------------------------------------------------------ vector index
\* collection.add(ids, documents, metadatas): ids already present are kept as they are
Add(idx, new) ==
    [x \in DOMAIN idx \cup DOMAIN new |-> IF x \in DOMAIN idx THEN idx[x] ELSE new[x]]

\* collection.update(ids=[id], ...): an id that is not present is left out
Update(idx, id, entry) ==
    [x \in DOMAIN idx |-> IF x = id THEN entry ELSE idx[x]]

\* collection.get(where={"source": file_name})["ids"]
IdsOfSource(idx, s) == {x \in DOMAIN idx : idx[x].source = s}

\* werkzeug.secure_filename: the names of the fixture are ASCII letters and one dot,
\* which it returns unchanged
secure_filename(filename) == filename

\* ------------------------------------------------- startup (main thread)
\* create_vectorstore: next file of docs_dir.rglob("*.docx"), or __init__ returns
BootNext ==
    /\ phase = "booting"
    /\ hpc[Main] = "boot"
    /\ IF bootq = <<>>
       THEN /\ phase' = "serving"
            /\ hpc' = [hpc EXCEPT ![Main] = "done"]
            /\ UNCHANGED <<bootq, hsrc>>
       ELSE /\ hsrc' = [hsrc EXCEPT ![Main] = Head(bootq)]
            /\ bootq' = Tail(bootq)
            /\ hpc' = [hpc EXCEPT ![Main] = "check"]
            /\ phase' = phase
    /\ UNCHANGED <<shared, himg, hres, workerVars>>

\* process_docx returns or raises.  In upload_file the result becomes the response
\* (200, or 500 from the except clause); in __init__ an exception ends the process.
Finish(p, status, path) ==
    IF p = Main
    THEN /\ phase' = IF status = 200 THEN phase ELSE "crashed"
         /\ hpc' = [hpc EXCEPT ![p] = "boot"]
         /\ hsrc' = [hsrc EXCEPT ![p] = NoSource]
         /\ himg' = [himg EXCEPT ![p] = 0]
         /\ UNCHANGED <<bootq, hres>>
    ELSE /\ hres' = [hres EXCEPT ![p] =
                      [Response("upload", status,
                                IF status = 200 THEN "message" ELSE "error",
                                status # 200) EXCEPT !.path = path]]
         /\ hpc' = [hpc EXCEPT ![p] = "respond"]
         /\ hsrc' = [hsrc EXCEPT ![p] = NoSource]
         /\ himg' = [himg EXCEPT ![p] = 0]
         /\ UNCHANGED <<phase, bootq>>

\* ---------------------------------------------------------------- /upload
\* Upload with file.save moved before the test of the extension
Upload_SaveFirst(p, req) ==
    /\ phase = "serving"
    /\ p \in Handlers
    /\ hpc[p] = "idle"
    /\ IF req.hasFile /\ req.filename # <<"">>
       THEN /\ uploads' = uploads \cup {secure_filename(req.filename)}
            /\ IF allowed_file(req.filename)
               THEN /\ hsrc' = [hsrc EXCEPT ![p] = secure_filename(req.filename)]
                    /\ hpc' = [hpc EXCEPT ![p] = "check"]
                    /\ hres' = hres
               ELSE /\ hres' = [hres EXCEPT ![p] = Response("upload", 400, "error", FALSE)]
                    /\ hpc' = [hpc EXCEPT ![p] = "respond"]
                    /\ hsrc' = hsrc
       ELSE /\ hres' = [hres EXCEPT ![p] = Response("upload", 400, "error", FALSE)]
            /\ hpc' = [hpc EXCEPT ![p] = "respond"]
            /\ UNCHANGED <<uploads, hsrc>>
    /\ UNCHANGED <<bootVars, index, queue, himg, workerVars>>

\* upload_file up to the call of process_docx
Upload(p, req) ==
    /\ phase = "serving"
    /\ p \in Handlers
    /\ hpc[p] = "idle"
    /\ IF req.hasFile /\ req.filename # <<"">> /\ allowed_file(req.filename)
       THEN /\ uploads' = uploads \cup {secure_filename(req.filename)}
            /\ hsrc' = [hsrc EXCEPT ![p] = secure_filename(req.filename)]
            /\ hpc' = [hpc EXCEPT ![p] = "check"]
            /\ hres' = hres
       ELSE /\ hres' = [hres EXCEPT ![p] = Response("upload", 400, "error", FALSE)]
            /\ hpc' = [hpc EXCEPT ![p] = "respond"]
            /\ UNCHANGED <<uploads, hsrc>>
    /\ UNCHANGED <<bootVars, index, queue, himg, workerVars>>

\* the response of a handler is sent; the thread is free for the next request
Respond(p) ==
    /\ p \in Handlers
    /\ hpc[p] = "respond"
    /\ hpc' = [hpc EXCEPT ![p] = "idle"]
    /\ hres' = [hres EXCEPT ![p] = NoResponse]
    /\ UNCHANGED <<bootVars, shared, hsrc, himg, workerVars>>

\* ------------------------------------------------------------ process_docx
\* IngestCheck without the early return of the duplicate check
IngestCheck_NoDedup(p) ==
    /\ phase # "crashed"
    /\ hpc[p] = "check"
    /\ \/ Finish(p, 500, "raise")
       \/ /\ hpc' = [hpc EXCEPT ![p] = "addtext"]
          /\ UNCHANGED <<phase, bootq, hsrc, himg, hres>>
    /\ UNCHANGED <<shared, workerVars>>

\* DocxDocument(path) and the duplicate check
IngestCheck(p) ==
    /\ phase # "crashed"
    /\ hpc[p] = "check"
    /\ \/ Finish(p, 500, "raise")            \* the parse or the get raises
       \/ /\ IdsOfSource(index, hsrc[p]) # {}
          /\ Finish(p, 200, "dup")
       \/ /\ IdsOfSource(index, hsrc[p]) = {}
          /\ hpc' = [hpc EXCEPT ![p] = "addtext"]
          /\ UNCHANGED <<phase, bootq, hsrc, himg, hres>>
    /\ UNCHANGED <<shared, workerVars>>

\* after the last write: the image loop goes on, or process_docx returns
IngestNext(p, k) ==
    IF k < NumImages(hsrc[p])
    THEN /\ hpc' = [hpc EXCEPT ![p] = "write"]
         /\ himg' = [himg EXCEPT ![p] = k]
         /\ UNCHANGED <<phase, bootq, hsrc, hres>>
    ELSE Finish(p, 200, "end")

\* collection.add of the text chunks
IngestAddText(p) ==
    /\ phase # "crashed"
    /\ hpc[p] = "addtext"
    /\ \/ /\ index' = Add(index, [x \in {TextId(hsrc[p], k) :
                                           k \in 0..(NumChunks(TextLen(hsrc[p])) - 1)}
                                   |-> TextEntry(hsrc[p], x[3])])
          /\ IngestNext(p, 0)
       \/ /\ index' = index                 \* the add raises
          /\ Finish(p, 500, "raise")
    /\ UNCHANGED <<uploads, queue, workerVars>>

\* open(queue_dir / f"{img_id}.png", "wb") and write
IngestWrite(p) ==
    /\ phase # "crashed"
    /\ hpc[p] = "write"
    /\ LET id == ImgId(hsrc[p], himg[p]) IN
       \/ /\ IF id \in SeqSet(queue)
             THEN queue' = queue
             ELSE \E k \in 0..Len(queue) : queue' = InsertAt(queue, k, id)
          /\ hpc' = [hpc EXCEPT ![p] = "addimg"]
          /\ UNCHANGED <<phase, bootq, hsrc, himg, hres>>
       \/ /\ queue' = queue                 \* the open raises
          /\ Finish(p, 500, "raise")
    /\ UNCHANGED <<uploads, index, workerVars>>

\* collection.add of the image placeholder; img_index += 1
IngestAddImg(p) ==
    /\ phase # "crashed"
    /\ hpc[p] = "addimg"
    /\ LET id == ImgId(hsrc[p], himg[p]) IN
       \/ /\ index' = Add(index, [x \in {id} |-> QueuedImageEntry(hsrc[p])])
          /\ IngestNext(p, himg[p] + 1)
       \/ /\ index' = index                 \* the add raises
          /\ Finish(p, 500, "raise")
    /\ UNCHANGED <<uploads, queue, workerVars>>

\* ---------------------------------------------------------- _vision_worker
\* images = list(self.queue_dir.glob("*.png")); sleep and retry when empty
WorkerGlob ==
    /\ phase # "crashed"
    /\ wpc = "idle"
    /\ wimages' = queue
    /\ wdone' = <<>>
    /\ wi' = 1
    /\ wpc' = IF queue = <<>> THEN "idle" ELSE "lookup"
    /\ UNCHANGED <<bootVars, shared, ingestVars, wmeta, wdesc>>

\* the for loop goes on to the next img_path, or the sweep ends with time.sleep(10)
WorkerAdvance(outcome) ==
    /\ wdone' = Append(wdone, [item |-> wimages[wi], outcome |-> outcome])
    /\ wmeta' = NoSource
    /\ wdesc' = ""
    /\ IF wi < Len(wimages)
       THEN wi' = wi + 1 /\ wpc' = "lookup"
       ELSE wi' = wi /\ wpc' = "idle"
    /\ wimages' = wimages

\* WorkerFail with the try around the for loop: an exception ends the sweep
WorkerFail_AbortsSweep ==
    /\ wdone' = Append(wdone, [item |-> wimages[wi], outcome |-> "fail"])
    /\ wmeta' = NoSource
    /\ wdesc' = ""
    /\ wi' = wi
    /\ wpc' = "idle"
    /\ wimages' = wimages

\* an exception inside the try block: printed by the except clause, loop goes on
WorkerFail == WorkerAdvance("fail")

\* WorkerLookup without the test of meta.get("processed")
WorkerLookup_NoProcessedCheck ==
    /\ phase # "crashed"
    /\ wpc = "lookup"
    /\ LET id == wimages[wi] IN
       \/ /\ WorkerFail
          /\ queue' = queue
       \/ /\ id \notin DOMAIN index
          /\ WorkerAdvance("skip")
          /\ queue' = queue
       \/ /\ id \in DOMAIN index
          /\ wmeta' = index[id].source
          /\ wpc' = "analyse"
          /\ UNCHANGED <<queue, wimages, wi, wdesc, wdone>>
    /\ UNCHANGED <<bootVars, uploads, index, ingestVars>>

\* WorkerLookup deleting the artifacts for which it finds no index entry
WorkerLookup_DeletesOrphans ==
    /\ phase # "crashed"
    /\ wpc = "lookup"
    /\ LET id == wimages[wi] IN
       \/ /\ WorkerFail
          /\ queue' = queue
       \/ /\ id \notin DOMAIN index
          /\ queue' = Without(queue, id)
          /\ WorkerAdvance("skip")
       \/ /\ id \in DOMAIN index
          /\ index[id].processed
          /\ queue' = Without(queue, id)
          /\ WorkerAdvance("cleanup")
       \/ /\ id \in DOMAIN index
          /\ ~index[id].processed
          /\ wmeta' = index[id].source
          /\ wpc' = "analyse"
          /\ UNCHANGED <<queue, wimages, wi, wdesc, wdone>>
    /\ UNCHANGED <<bootVars, uploads, index, ingestVars>>

\* meta_list = collection.get(ids=[doc_id]); skip if absent, unlink if processed
WorkerLookup ==
    /\ phase # "crashed"
    /\ wpc = "lookup"
    /\ LET id == wimages[wi] IN
       \/ /\ WorkerFail                     \* the get raises
          /\ queue' = queue
       \/ /\ id \notin DOMAIN index
          /\ WorkerAdvance("skip")
          /\ queue' = queue
       \/ /\ id \in DOMAIN index
          /\ index[id].processed
          /\ queue' = Without(queue, id)
          /\ WorkerAdvance("cleanup")
       \/ /\ id \in DOMAIN index
          /\ ~index[id].processed
          /\ wmeta' = index[id].source
          /\ wpc' = "analyse"
          /\ UNCHANGED <<queue, wimages, wi, wdesc, wdone>>
    /\ UNCHANGED <<bootVars, uploads, index, ingestVars>>

\* WorkerAnalyse with the except clause deleting the artifact that failed
WorkerAnalyse_DropsOnFail ==
    /\ phase # "crashed"
    /\ wpc = "analyse"
    /\ \/ /\ wimages[wi] \in SeqSet(queue)
          /\ \E d \in Descriptions : wdesc' = d
          /\ wpc' = "update"
          /\ queue' = queue
          /\ UNCHANGED <<wimages, wi, wmeta, wdone>>
       \/ /\ WorkerFail
          /\ queue' = Without(queue, wimages[wi])
    /\ UNCHANGED <<bootVars, uploads, index, ingestVars>>

\* open(img_path), prepare_image_for_vision and describe_image
WorkerAnalyse ==
    /\ phase # "crashed"
    /\ wpc = "analyse"
    /\ \/ /\ wimages[wi] \in SeqSet(queue)
          /\ \E d \in Descriptions : wdesc' = d
          /\ wpc' = "update"
          /\ UNCHANGED <<wimages, wi, wmeta, wdone>>
       \/ WorkerFail                        \* open, decode or the model call raises
    /\ UNCHANGED <<bootVars, shared, ingestVars>>

\* WorkerUpdate writing the metadata without the source of the entry
WorkerUpdate_DropsSource ==
    /\ phase # "crashed"
    /\ wpc = "update"
    /\ \/ /\ index' = Update(index, wimages[wi], ProcessedImageEntry(NoSource, wdesc))
          /\ wpc' = "unlink"
          /\ UNCHANGED <<wimages, wi, wmeta, wdesc, wdone>>
       \/ /\ index' = index
          /\ WorkerFail
    /\ UNCHANGED <<bootVars, uploads, queue, ingestVars>>

\* collection.update(ids=[doc_id], documents=[description], metadatas=[...])
WorkerUpdate ==
    /\ phase # "crashed"
    /\ wpc = "update"
    /\ \/ /\ index' = Update(index, wimages[wi], ProcessedImageEntry(wmeta, wdesc))
          /\ wpc' = "unlink"
          /\ UNCHANGED <<wimages, wi, wmeta, wdesc, wdone>>
       \/ /\ index' = index                 \* the update raises
          /\ WorkerFail
    /\ UNCHANGED <<bootVars, uploads, queue, ingestVars>>

\* img_path.unlink(missing_ok=True)
WorkerUnlink ==
    /\ phase # "crashed"
    /\ wpc = "unlink"
    /\ queue' = Without(queue, wimages[wi])
    /\ WorkerAdvance("ok")
    /\ UNCHANGED <<bootVars, uploads, index, ingestVars>>

\* ------------------------------------------------------------------- /ask
\* what can happen to the upstream calls made while generate() runs
AskOutcomes ==
    {"ok", "query_fails", "create_fails", "stream_fails_first", "stream_fails_later"}

\* The response the caller of ask_question gets.  generate is a generator function:
\* the try block only builds the generator and the response object and returns
\* them with status 200; the body of generate (query, create, the loop over the
\* stream) runs when the server iterates the response, outside the try.  An
\* exception before the first yield reaches the server before it has sent the
\* headers, and it sends its own 500 page; one after a yield ends a stream whose
\* 200 status the caller already has.
AskResponse(question, outcome) ==
    IF question = ""
    THEN Response("ask", 400, "error", FALSE)
    ELSE CASE outcome = "ok" ->
                Response("ask", 200, "stream_done", FALSE)
           [] outcome \in {"query_fails", "create_fails", "stream_fails_first"} ->
                Response("ask", 500, "server_error", TRUE)
           [] outcome = "stream_fails_later" ->
                Response("ask", 200, "stream_aborted", TRUE)

\* ask_question and the iteration of its response
Ask(p, question, outcome) ==
    /\ phase = "serving"
    /\ p \in Handlers
    /\ hpc[p] = "idle"
    /\ hres' = [hres EXCEPT ![p] = AskResponse(question, outcome)]
    /\ hpc' = [hpc EXCEPT ![p] = "respond"]
    /\ UNCHANGED <<bootVars, shared, hsrc, himg, workerVars>>

\* ---------------------------------------------------------- /queue-status
\* the loop over pending_images: the first path whose entry exists and is not
\* processed; a get that raises is skipped by the bare except.  <<>> is None.
CurrentImage(pending, idx, failing) ==
    LET cand == {i \in 1..Len(pending) :
                    /\ i \notin failing
                    /\ pending[i] \in DOMAIN idx
                    /\ ~idx[pending[i]].processed}
    IN IF cand = {} THEN <<>>
       ELSE LET i == CHOOSE i \in cand : \A j \in cand : i <= j
            IN <<[filename |-> pending[i], source_doc |-> pending[i][1]]>>

\* StatusResponse with pending_images counted from the index (the unprocessed
\* image entries) instead of from the files of the queue directory
StatusResponse_PendingFromIndex(idx, q, failing, finalFails) ==
    LET pending_images == SortedSeq(SeqSet(q))
        images == {x \in DOMAIN idx : idx[x].type = "image"}
        unprocessed == Cardinality({x \in images : ~idx[x].processed})
    IN IF finalFails
       THEN Response("status", 500, "error", TRUE)
       ELSE [Response("status", 200, "stats", FALSE) EXCEPT !.stats =
               [pending_images |-> unprocessed,
                total_images |-> Cardinality(images),
                processed_images |-> Cardinality({x \in images : idx[x].processed}),
                is_processing |-> unprocessed > 0,
                current_image |-> CurrentImage(pending_images, idx, failing)]]

\* the body of the try block of queue_status
StatusResponse(idx, q, failing, finalFails) ==
    LET pending_images == SortedSeq(SeqSet(q))
        images == {x \in DOMAIN idx : idx[x].type = "image"}
    IN IF finalFails
       THEN Response("status", 500, "error", TRUE)
       ELSE [Response("status", 200, "stats", FALSE) EXCEPT !.stats =
               [pending_images |-> Len(pending_images),
                total_images |-> Cardinality(images),
                processed_images |-> Cardinality({x \in images : idx[x].processed}),
                is_processing |-> Len(pending_images) > 0,
                current_image |-> CurrentImage(pending_images, idx, failing)]]

\* QueueStatus with the worker's unlink of the artifacts it skips over
QueueStatus_Cleans(p, failing, finalFails) ==
    /\ phase = "serving"
    /\ p \in Handlers
    /\ hpc[p] = "idle"
    /\ hres' = [hres EXCEPT ![p] = StatusResponse(index, queue, failing, finalFails)]
    /\ hpc' = [hpc EXCEPT ![p] = "respond"]
    /\ queue' = SelectSeq(queue, LAMBDA x : x \in DOMAIN index /\ ~index[x].processed)
    /\ UNCHANGED <<bootVars, uploads, index, hsrc, himg, workerVars>>

\* queue_status; failing: the positions whose collection.get raises, finalFails:
\* whether the collection.get() of all metadata raises
QueueStatus(p, failing, finalFails) ==
    /\ phase = "serving"
    /\ p \in Handlers
    /\ hpc[p] = "idle"
    /\ hres' = [hres EXCEPT ![p] = StatusResponse(index, queue, failing, finalFails)]
    /\ hpc' = [hpc EXCEPT ![p] = "respond"]
    /\ UNCHANGED <<bootVars, shared, hsrc, himg, workerVars>>

Next ==
    \/ BootNext
    \/ \E p \in Handlers, req \in UploadRequests : Upload(p, req)
    \/ \E p \in Handlers : Respond(p)
    \/ \E p \in Procs : IngestCheck(p)
    \/ \E p \in Procs : IngestAddText(p)
    \/ \E p \in Procs : IngestWrite(p)
    \/ \E p \in Procs : IngestAddImg(p)
    \/ WorkerGlob
    \/ WorkerLookup
    \/ WorkerAnalyse
    \/ WorkerUpdate
    \/ WorkerUnlink
    \/ \E p \in Handlers, q \in Questions, o \in AskOutcomes : Ask(p, q, o)
    \/ \E p \in Handlers, failing \in SUBSET (1..Len(queue)), finalFails \in BOOLEAN :
            QueueStatus(p, failing, finalFails)

Spec == Init /\ [][Next]_vars

\* The clients send one /upload at a time: thread 1 serves the uploads, thread 2
\* the /ask and /queue-status requests, concurrently with it and with the worker.
SerialNext ==
    \/ BootNext
    \/ \E req \in UploadRequests : Upload(1, req)
    \/ \E p \in {1, 2} : Respond(p)
    \/ \E p \in {Main, 1} : IngestCheck(p)
    \/ \E p \in {Main, 1} : IngestAddText(p)
    \/ \E p \in {Main, 1} : IngestWrite(p)
    \/ \E p \in {Main, 1} : IngestAddImg(p)
    \/ WorkerGlob
    \/ WorkerLookup
    \/ WorkerAnalyse
    \/ WorkerUpdate
    \/ WorkerUnlink
    \/ \E q \in Questions, o \in AskOutcomes : Ask(2, q, o)
    \/ \E failing \in SUBSET (1..Len(queue)), finalFails \in BOOLEAN :
            QueueStatus(2, failing, finalFails)

SerialSpec == Init /\ [][SerialNext]_vars

\* The server started on an empty upload directory and one client uploads the
\* documents of ChunkDocs, one after the other, in any order.
ChunkNext ==
    \/ BootNext
    \/ \E f \in ChunkDocs : Upload(1, [hasFile |-> TRUE, filename |-> f])
    \/ Respond(1)
    \/ IngestCheck(1)
    \/ IngestAddText(1)

ChunkInit == Init /\ uploads = {}

ChunkSpec == ChunkInit /\ [][ChunkNext]_vars

\* The server started on an empty upload directory, one thread serving uploads,
\* with the scheduling the claims about progress assume: every thread that can
\* take a step eventually takes one, and a call of the worker that is tried again
\* and again (index get, image analysis, index update) eventually succeeds.
LiveInit == Init /\ uploads = {}

LiveNext ==
    \/ BootNext
    \/ \E req \in UploadRequests : Upload(1, req)
    \/ Respond(1)
    \/ IngestCheck(1)
    \/ IngestAddText(1)
    \/ IngestWrite(1)
    \/ IngestAddImg(1)
    \/ WorkerGlob
    \/ WorkerLookup
    \/ WorkerAnalyse
    \/ WorkerUpdate
    \/ WorkerUnlink

\* the steps of the worker on artifact x in which no call raises
WorkerLookupOk(x) ==
    /\ WorkerLookup
    /\ wimages[wi] = x
    /\ wpc' = "analyse" \/ wdone'[Len(wdone')].outcome # "fail"
WorkerAnalyseOk(x) == WorkerAnalyse /\ wimages[wi] = x /\ wpc' = "update"
WorkerUpdateOk(x) == WorkerUpdate /\ wimages[wi] = x /\ wpc' = "unlink"

LiveFairness ==
    /\ WF_vars(BootNext)
    /\ WF_vars(Respond(1))
    /\ WF_vars(IngestCheck(1))
    /\ WF_vars(IngestAddText(1))
    /\ WF_vars(IngestWrite(1))
    /\ WF_vars(IngestAddImg(1))
    /\ WF_vars(WorkerGlob)
    /\ WF_vars(WorkerLookup)
    /\ WF_vars(WorkerAnalyse)
    /\ WF_vars(WorkerUpdate)
    /\ WF_vars(WorkerUnlink)
    /\ \A x \in ImageIds : SF_vars(WorkerLookupOk(x))
    /\ \A x \in ImageIds : SF_vars(WorkerAnalyseOk(x))
    /\ \A x \in ImageIds : SF_vars(WorkerUpdateOk(x))

LiveSpec == LiveInit /\ [][LiveNext]_vars /\ LiveFairness

\* ------------------------------------------------------------------ claims
Ingesting(p) == hpc[p] \in {"check", "addtext", "write", "addimg"}
IsProcessed(x) == x \in DOMAIN index /\ index[x].processed
IsPending(x) == x \in DOMAIN index /\ index[x].type = "image" /\ ~index[x].processed

\* C1: a process_docx that reaches its duplicate check while the index holds an
\* entry of its source returns there (or raises): the call changes neither the
\* index nor the queue directory, and the thread never enters the writing part.
C1_IngestIdempotent ==
    [][\A p \in Procs :
          (/\ hpc[p] = "check"
           /\ IdsOfSource(index, hsrc[p]) # {}
           /\ hpc'[p] # "check")
          => (/\ index' = index
              /\ queue' = queue
              /\ hpc'[p] \in {"respond", "boot"})]_vars

\* a re-upload was answered by the duplicate return after the worker had worked
C1_Witness ==
    \E p \in Handlers :
        /\ hres[p].path = "dup"
        /\ \E x \in DOMAIN index : index[x].processed

\* C2: under LiveSpec every artifact that process_docx has written to the queue
\* directory eventually has an index entry with processed=true.
C2_QueuedEventuallyProcessed ==
    \A x \in ImageIds : (x \in SeqSet(queue)) ~> IsProcessed(x)

\* C3: every item of the sweep's listing is visited whatever happened to the items
\* before it; an item whose analysis and update went through is processed when
\* the sweep ends; a failure leaves the worker in its loop.
C3_FailureIsolation ==
    /\ wpc \in {"idle", "lookup", "analyse", "update", "unlink"}
    /\ \A i \in 1..Len(wdone) : wdone[i].item = wimages[i]
    /\ wpc # "idle" => Len(wdone) = wi - 1 /\ wi <= Len(wimages)
    /\ wpc = "idle" =>
          /\ Len(wdone) = Len(wimages)
          /\ \A i \in 1..Len(wdone) :
                wdone[i].outcome = "ok" => IsProcessed(wimages[i])

\* a sweep has ended in which an item failed and a later item was processed
C3_Witness ==
    /\ wpc = "idle"
    /\ \E i, j \in 1..Len(wdone) :
          /\ i < j
          /\ wdone[i].outcome = "fail"
          /\ wdone[j].outcome = "ok"
          /\ IsProcessed(wimages[j])
          /\ ~IsProcessed(wimages[i])

\* C5: an image entry enters the index unprocessed with the placeholder; once it
\* is processed no step changes it, and the worker never analyses it again.
C5_ProcessedIsTerminal ==
    [][/\ \A x \in DOMAIN index' \ DOMAIN index :
             index'[x].type = "image" => index'[x] = QueuedImageEntry(x[1])
       /\ \A x \in DOMAIN index :
             index[x].processed =>
                /\ x \in DOMAIN index'
                /\ index'[x] = index[x]
                /\ ~(wpc' \in {"analyse", "update"} /\ wimages'[wi'] = x)
       /\ \A x \in DOMAIN index :
             (x \in DOMAIN index' /\ index'[x] # index[x]) =>
                /\ index[x] = QueuedImageEntry(x[1])
                /\ index'[x].processed
                /\ index'[x].doc.text \in Descriptions]_vars

\* the worker is about to look up an artifact whose entry is already processed
C5_Witness ==
    /\ \E x \in DOMAIN index : index[x].processed /\ x \in SeqSet(queue)
    /\ wpc = "lookup"
    /\ IsProcessed(wimages[wi])

\* the /upload requests the claim calls invalid
InvalidUpload(req) ==
    \/ ~req.hasFile
    \/ req.filename = <<"">>
    \/ Len(req.filename) = 1
    \/ req.filename[Len(req.filename)] \notin {"docx", "DOCX", "Docx"}

\* C9: an /upload without a file part, with an empty name or with a name that
\* does not end in .docx, and an /ask with an empty question, are answered 400
\* by a step that leaves the upload directory, the index and the queue as they are.
C9_ValidationMutatesNothing ==
    [][\A p \in Handlers :
          (hpc[p] = "idle" /\ hpc'[p] # "idle") =>
             /\ \A req \in UploadRequests :
                   (InvalidUpload(req) /\ Upload(p, req)) =>
                      /\ hres'[p].status = 400
                      /\ hpc'[p] = "respond"
                      /\ UNCHANGED shared
             /\ \A o \in AskOutcomes :
                   Ask(p, "", o) =>
                      /\ hres'[p].status = 400
                      /\ UNCHANGED shared]_vars

\* one thread has rejected an upload and the other an empty question
C9_Witness ==
    \E p, r \in Handlers :
        /\ hres[p].route = "upload" /\ hres[p].status = 400
        /\ hres[r].route = "ask" /\ hres[r].status = 400
        /\ DOMAIN index # {}
        /\ queue # <<>>

\* C10: a step of queue_status, answered 200 or 500, changes no index entry and
\* no queue artifact.
C10_StatusReadOnly ==
    [][\A p \in Handlers :
          (hpc[p] = "idle" /\ hres'[p].route = "status") =>
             /\ index' = index
             /\ queue' = queue
             /\ uploads' = uploads]_vars

\* queue_status has answered while the queue held an orphaned artifact and an
\* artifact of a processed entry
C10_Witness ==
    \E p \in Handlers :
        /\ hres[p].route = "status"
        /\ \E x \in SeqSet(queue) : x \notin DOMAIN index
        /\ \E x \in SeqSet(queue) : IsProcessed(x)

\* the path the worker analyses first when it lists the queue directory now: the
\* first of the listing whose entry exists and is not processed; <<>> if none
WorkerNextImage ==
    LET cand == {i \in 1..Len(queue) : IsPending(queue[i])}
    IN IF cand = {} THEN <<>>
       ELSE LET i == CHOOSE i \in cand : \A j \in cand : i <= j
            IN <<[filename |-> queue[i], source_doc |-> queue[i][1]]>>

\* C4: the current_image of a queue_status answered without an internal error is
\* the first unprocessed artifact in the order in which the worker iterates the
\* queue directory, and null exactly when there is none.
C4_OrderingConsistency ==
    [][\A p \in Handlers :
          QueueStatus(p, {}, FALSE) =>
             hres'[p].stats.current_image = WorkerNextImage]_vars

\* C6: when no process_docx is running and the worker is between two items, an
\* artifact is in the queue directory exactly if the index holds its image entry
\* with processed=false.
Quiescent ==
    /\ phase = "serving"
    /\ \A p \in Procs : ~Ingesting(p)
    /\ wpc \in {"idle", "lookup"}

C6_QueueIndexConsistent ==
    Quiescent => \A x \in ImageIds : x \in SeqSet(queue) <=> IsPending(x)

\* the ids process_docx writes for a source
IdsOf(s) ==
    {TextId(s, k) : k \in 0..(NumChunks(TextLen(s)) - 1)}
        \cup {ImgId(s, i) : i \in 0..(NumImages(s) - 1)}

\* C7: after an ingestion of a source has failed, a later process_docx of that
\* source is not ended by the duplicate check.
C7_FailedIngestRetryable ==
    [][\A p \in Handlers :
          (/\ hpc[p] = "check"
           /\ \A r \in Procs \ {p} : Ingesting(r) => hsrc[r] # hsrc[p]
           /\ IdsOf(hsrc[p]) \ DOMAIN index # {}
           /\ hpc'[p] = "respond")
          => hres'[p].path # "dup"]_vars

\* C8: an /ask with a question, during which an upstream call failed, is answered
\* with status 500 and an error body.
C8_AskFailureIsError ==
    \A p \in Handlers :
        (hres[p].route = "ask" /\ hres[p].failed) =>
            /\ hres[p].status = 500
            /\ hres[p].body \in {"error", "server_error"}

C12_Chunking ==
    [][\A p \in Procs :
          (hpc[p] = "addtext" /\ hpc'[p] # "addtext" /\ index' # index) =>
             LET s == hsrc[p]
                 len == TextLen(s)
                 new == DOMAIN index' \ DOMAIN index
                 n == Cardinality(new)
                 doc(k) == index'[TextId(s, k)].doc
             IN /\ new = {TextId(s, k) : k \in 0..(n - 1)}
                /\ \A k \in 0..(n - 1) :
                      /\ index'[TextId(s, k)].type = "text"
                      /\ index'[TextId(s, k)].source = s
                      /\ doc(k).lo = k * Stride
                      /\ doc(k).lo < doc(k).hi
                      /\ doc(k).hi - doc(k).lo <= Window
                /\ doc(0).lo = 0
                /\ doc(n - 1).hi = len
                /\ \A k \in 0..(n - 2) : doc(k + 1).lo <= doc(k).hi
                /\ (len >= 1 /\ len <= Window) =>
                      /\ n = 1
                      /\ doc(0) = [text |-> "slice", lo |-> 0, hi |-> len]]_vars

\* C13: when the analysis of image X has succeeded, the update of the worker
\* makes X's entry processed with the description the vision model returned and
\* the source and type it had, and changes no other entry and no artifact; the
\* unlink that follows removes X's artifact and nothing else, and leaves X's
\* entry processed with that description.
C13_SuccessEffect ==
    [][/\ (wpc = "update" /\ wpc' = "unlink") =>
             LET x == wimages[wi] IN
                /\ x \in DOMAIN index
                /\ DOMAIN index' = DOMAIN index
                /\ index[x].type = "image"
                /\ wdesc \in Descriptions
                /\ index'[x] = [source |-> index[x].source, type |-> "image",
                                processed |-> TRUE,
                                doc |-> [text |-> wdesc, lo |-> 0, hi |-> 0]]
                /\ \A y \in DOMAIN index \ {x} : index'[y] = index[y]
                /\ queue' = queue
       /\ (wpc = "unlink" /\ wpc' # "unlink") =>
             LET x == wimages[wi] IN
                /\ x \notin SeqSet(queue')
                /\ SeqSet(queue') = SeqSet(queue) \ {x}
                /\ index' = index
                /\ IsProcessed(x)
                /\ index[x].source = x[1]
                /\ index[x].doc.text = wdesc]_vars

\* the worker has finished a successful step on one image while the entry and
\* the artifact of another image are still as the ingestion left them
C13_Witness ==
    \E i \in 1..Len(wdone) :
        /\ wdone[i].outcome = "ok"
        /\ IsProcessed(wdone[i].item)
        /\ wdone[i].item \notin SeqSet(queue)
        /\ \E y \in SeqSet(queue) :
              y \in DOMAIN index /\ index[y] = QueuedImageEntry(y[1])

\* the step of the worker on its current item ends by an exception
WorkerStepFails ==
    /\ wpc \in {"lookup", "analyse", "update"}
    /\ wdone' = Append(wdone, [item |-> wimages[wi], outcome |-> "fail"])

\* C14: a failing step of the worker on image X, in particular a failing
\* analysis, changes neither the index nor the queue directory: X's artifact is
\* still there and, for a failing analysis, X's entry is still unprocessed with
\* the placeholder; the listing of the next sweep contains every item that
\* failed in the sweep before, and the worker analyses a listed item whose entry
\* is unprocessed unless the lookup itself raises.  This holds at every failure,
\* whatever number of failures came before.
C14_FailureKeepsWork ==
    [][/\ WorkerStepFails =>
             /\ index' = index
             /\ queue' = queue
             /\ wpc \in {"analyse", "update"} =>
                   /\ wimages[wi] \in SeqSet(queue')
                   /\ wimages[wi] \in DOMAIN index'
                   /\ index'[wimages[wi]] = QueuedImageEntry(wimages[wi][1])
       /\ (wpc = "idle" /\ wdone' = <<>> /\ wimages' = queue) =>
             \A i \in 1..Len(wdone) :
                 wdone[i].outcome = "fail" => wdone[i].item \in SeqSet(wimages')
       /\ (wpc = "lookup" /\ IsPending(wimages[wi]) /\ <<wpc, wi, wdone>>' # <<wpc, wi, wdone>>) =>
             \/ wpc' = "analyse" /\ wi' = wi
             \/ WorkerStepFails]_vars

\* a sweep has ended in which the step on X failed, X's entry and artifact are
\* as the ingestion left them, and another item of the sweep was processed
C14_Witness ==
    /\ wpc = "idle"
    /\ \E i, j \in 1..Len(wdone) :
          /\ wdone[i].outcome = "fail"
          /\ wdone[i].item \in SeqSet(queue)
          /\ wdone[i].item \in DOMAIN index
          /\ index[wdone[i].item] = QueuedImageEntry(wdone[i].item[1])
          /\ wdone[j].outcome = "ok"

\* C15: when the worker's lookup of a listed artifact returns without raising,
\* an artifact whose id has no entry in the index is deleted by that step, and
\* an artifact whose entry is processed is deleted without being analysed.
C15_OrphanCleanup ==
    [][(/\ wpc = "lookup"
        /\ <<wpc, wi, wdone>>' # <<wpc, wi, wdone>>
        /\ ~WorkerStepFails) =>
          LET x == wimages[wi] IN
             /\ x \notin DOMAIN index => x \notin SeqSet(queue')
             /\ IsProcessed(x) => (x \notin SeqSet(queue') /\ wpc' # "analyse")]_vars

\* C16: the worker visits the artifacts of a sweep in the order of its listing,
\* and that listing is in lexicographic order of the artifact names: of two
\* listed artifacts the one with the smaller name comes first.
C16_LexicographicSweep ==
    /\ \A i \in 1..Len(wdone) : wdone[i].item = wimages[i]
    /\ \A i, j \in 1..Len(wimages) :
          i < j => NameLess(wimages[i], wimages[j])

\* C17: in every state in which the server answers requests, the index holds
\* either none or all of the entries (text passages and image placeholders)
\* that process_docx writes for a source.
C17_AllOrNothing ==
    phase = "serving" =>
        \A s \in Sources :
            \/ IdsOf(s) \cap DOMAIN index = {}
            \/ IdsOf(s) \subseteq DOMAIN index

\* the thread is in the part of process_docx behind the duplicate check
Writing(p) == hpc[p] \in {"addtext", "write", "addimg"}

\* C18: of the threads that run process_docx for the same source name at most
\* one is behind the duplicate check; process_docx writes an artifact only if
\* the queue directory does not hold it and its entry is not processed, and
\* adds an image entry only under an id the index does not hold.
C18_SingleIngestion ==
    [][/\ \A p, r \in Procs :
             (p # r /\ Writing(p) /\ Writing(r)) => hsrc[p] # hsrc[r]
       /\ \A p \in Procs :
             (hpc[p] = "write" /\ hpc'[p] = "addimg") =>
                /\ ImgId(hsrc[p], himg[p]) \notin SeqSet(queue)
                /\ ~IsProcessed(ImgId(hsrc[p], himg[p]))
       /\ \A p \in Procs :
             (hpc[p] = "addimg" /\ hpc'[p] \in {"write", "respond", "boot"}
                 /\ hres'[p].path # "raise" /\ phase' # "crashed") =>
                ImgId(hsrc[p], himg[p]) \notin DOMAIN index]_vars

\* C19: in every reachable state every image entry with processed=false has its
\* artifact in the queue directory, and a step removes an artifact from the
\* queue directory only if its index entry exists and is processed (so never an
\* artifact that process_docx has written and not yet registered).
C19_NoPendingWorkLost ==
    /\ [](\A x \in DOMAIN index :
             (index[x].type = "image" /\ ~index[x].processed) => x \in SeqSet(queue))
    /\ [][\A x \in SeqSet(queue) \ SeqSet(queue') : IsProcessed(x)]_vars

\* the worker visited an artifact before process_docx registered it and skipped
\* it; the entry is now registered and pending, its artifact is in the queue,
\* and the worker has removed the artifact of another, processed entry
C19_Witness ==
    /\ \E i \in 1..Len(wdone) :
          /\ wdone[i].outcome = "skip"
          /\ IsPending(wdone[i].item)
          /\ wdone[i].item \in SeqSet(queue)
    /\ \E y \in DOMAIN index : index[y].processed /\ y \notin SeqSet(queue)

====
